---- MODULE Spec2Model ----
(***************************************************************************)
(* Model of convert_sql.py: the line tokenizer, the header parser, the     *)
(* context engine (process_token / process_tokens), the output router      *)
(* (get_outfile) and the JSON / JS emitters.                               *)
(*                                                                         *)
(* Text is modelled as sequences of one-character strings; identifiers and *)
(* SQL words are single lexemes ("k", "q", "PREPARE", ...).  A path is a    *)
(* record [segs, ext]: the "/"-separated segments and the extension of the *)
(* last segment ("" when os.path.splitext finds none).                      *)
(***************************************************************************)
EXTENDS Integers, Sequences, FiniteSets, TLC

VARIABLES
    pep479,           \* TRUE: StopIteration inside a generator becomes RuntimeError (Python >= 3.7)
    conv,             \* converter class: "JS" or "JSON"
    driver,           \* what the caller runs: "process_header" alone, "process_tokens" (a plain for loop) or "output_tokens"
    pc,               \* "header", "body", "done", "error"
    err,              \* exception that ended the run, "" when none
    config,           \* self.config
    params,           \* pre_existing_params threaded by process_tokens
    outfiles,         \* self.outfiles: path -> open handle [data, pos]
    last_indent,      \* JSONConverter.last_indent (number of spaces, -1 for None)
    last_line,        \* JSONConverter.last_line
    nTok,             \* tokens pulled from token_source in the current phase
    token,            \* token last handed to process_token by the for loop
    sql_token,        \* token pulled by the meta-comment lookahead in that step
    processed_token,  \* what process_token returned in that step
    block,            \* tokenizer: lines of the block being read
    lexpc,            \* tokenizer: position in the generator
    lexOut,           \* tokenizer: token of the last yield
    nLines,           \* tokenizer: lines read from the file
    deleted,          \* TRUE once __del__ has run on the converter
    closed            \* paths of self.outfiles whose handle has been closed

vars == <<pep479, conv, driver, pc, err, config, params, outfiles, last_indent,
          last_line, nTok, token, sql_token, processed_token,
          block, lexpc, lexOut, nLines, deleted, closed>>

convVars == <<conv, driver, pc, err, config, params, outfiles, last_indent,
              last_line, nTok, token, sql_token, processed_token, deleted, closed>>

lexVars == <<block, lexpc, lexOut, nLines>>

----------------------------------------------------------------------------
(* Bounds *)

MaxHeaderTokens == 4
MaxBodyTokens == 4
MaxGroupDepth == 2
MaxLines == 4

----------------------------------------------------------------------------
(* Module constants of convert_sql.py *)

END_HEADER_MARKER == "endhead"
REQUIRED_HEADER_FIELDS == {"dialect"}
STARTGROUP_TAG == "startgroup"
ENDGROUP_TAG == "endgroup"
json_spaces == 4

\* str.lower() on the tags the regexes let through
Lower(s) ==
    CASE s \in {"DIALECT", "Dialect"} -> "dialect"
      [] s = "VERSION" -> "version"
      [] s = "OUTPUT" -> "output"
      [] s = "ENDHEAD" -> "endhead"
      [] s = "STARTGROUP" -> "startgroup"
      [] s = "ENDGROUP" -> "endgroup"
      [] s = "EXCLUDE" -> "exclude"
      [] s = "MULTILINE" -> "multiline"
      [] OTHER -> s

----------------------------------------------------------------------------
(* os.path on [segs, ext] paths *)

NoPath == [segs |-> <<>>, ext |-> ""]

Front(s) == SubSeq(s, 1, Len(s) - 1)

Last(s) == s[Len(s)]

\* os.path.dirname
dirname(p) ==
    IF p.segs = <<>> \/ p.segs = <<"/">>
    THEN [segs |-> p.segs, ext |-> ""]
    ELSE [segs |-> Front(p.segs), ext |-> ""]

\* os.path.splitext(p)[0] and [1]
splitext_base(p) == [segs |-> p.segs, ext |-> ""]

splitext_ext(p) == p.ext

\* os.path.join(d, leaf + ext) for an extension-less d
join(d, leaf, ext) == [segs |-> Append(d.segs, leaf), ext |-> ext]

\* d + ext (string concatenation) for an extension-less d; "" + ".js" and
\* "/" + ".js" name a dot-file, for which splitext finds no extension
concat_ext(d, ext) ==
    IF d.segs = <<>> \/ d.segs = <<"/">>
    THEN [segs |-> Append(d.segs, ext), ext |-> ""]
    ELSE [segs |-> d.segs, ext |-> ext]

\* os.getcwd()
getcwd == [segs |-> <<"/", "srv", "proj">>, ext |-> ""]

\* the value of an OUTPUT header line as a path
HeaderPath(v) ==
    CASE v = "/srv/out/q.json" -> [segs |-> <<"/", "srv", "out", "q">>, ext |-> ".json"]
      [] v = "/srv/out" -> [segs |-> <<"/", "srv", "out">>, ext |-> ""]
      [] v = "/srv/alt/r.json" -> [segs |-> <<"/", "srv", "alt", "r">>, ext |-> ".json"]
      [] OTHER -> [segs |-> <<v>>, ext |-> ""]

----------------------------------------------------------------------------
(* Tokens: Token(type, contents) with the contents spread over fixed fields *)

Tok(type, tag, name, output, value, cmds, text) ==
    [type |-> type, tag |-> tag, name |-> name, output |-> output,
     value |-> value, cmds |-> cmds, text |-> text]

\* no token: the token source is exhausted
EOF == Tok("EOF", "", "", "", "", <<>>, <<>>)

NoToken == Tok("NONE", "", "", "", "", <<>>, <<>>)

HeaderTok(tag, value) == Tok("HEADER", tag, "", "", value, <<>>, <<>>)

LineCommentTok == Tok("LINE_COMMENT", "", "", "", "", <<>>, <<"c">>)

BlockCommentTok == Tok("BLOCK_COMMENT", "", "", "", "", <<>>, <<"c">>)

GroupTok(tag, name, output) == Tok("GROUP_TAG", tag, name, output, "", <<>>, <<>>)

\* a meta comment: cmds are the EXCLUDE / MULTILINE keywords in document
\* order, output the name of a trailing "OUTPUT: name" clause ("" if none)
MetaTok(cmds, output) == Tok("META_COMMENT", "", "", output, "", cmds, <<>>)

SqlTok(text) == Tok("SQL", "", "", "", "", <<>>, text)

SqlSelect == <<"SELECT", " ", "q", ";">>

SqlPrepare == <<"PREPARE", " ", "k", " ", "AS", " ", "q", ";">>

\* a statement spread over two source lines
SqlPrepareMultiline == <<"PREPARE", " ", "k", " ", "AS", "\n", "q", " ", " ", "q", ";">>

HeaderTokens ==
    { HeaderTok("DIALECT", "postgres"), HeaderTok("VERSION", "1"),
      HeaderTok("OUTPUT", "/srv/out/q.json"), HeaderTok("ENDHEAD", ":") }

\* header lines that give a tag again, in another case and with another value
RepeatedHeaderTokens ==
    { HeaderTok("Dialect", "base_sql"), HeaderTok("version", "2"),
      HeaderTok("output", "/srv/alt/r.json") }

\* the header lines of the documents fed to a caller d of the converter
header_tokens(d) ==
    IF d = "process_header" THEN HeaderTokens \cup RepeatedHeaderTokens
    ELSE HeaderTokens

GroupNames == {"a", "b"}

Overrides == {"", "x"}

SqlTokens == { SqlTok(SqlSelect), SqlTok(SqlPrepare), SqlTok(SqlPrepareMultiline) }

MetaTokens ==
    { MetaTok(<<"EXCLUDE">>, ""), MetaTok(<<"MULTILINE">>, ""),
      MetaTok(<<>>, "x"), MetaTok(<<"MULTILINE">>, "x") }

BodyTokens ==
    { LineCommentTok, BlockCommentTok, HeaderTok("VERSION", "1") }
    \cup { GroupTok("STARTGROUP", n, o) : n \in GroupNames, o \in Overrides }
    \cup { GroupTok("ENDGROUP", "a", "") }
    \cup MetaTokens \cup SqlTokens

\* the tokens the documents put right after a meta comment: any statement,
\* or one token of each kind that is no statement
LookaheadTokens ==
    SqlTokens \cup { LineCommentTok, GroupTok("STARTGROUP", "a", ""),
                     MetaTok(<<"EXCLUDE">>, ""), HeaderTok("VERSION", "1") }

----------------------------------------------------------------------------
(* Context engine: BaseConverter.process_token *)

Params(output, group, allow_comments, meta) ==
    [output |-> output, group |-> group, allow_comments |-> allow_comments, meta |-> meta]

\* a processed_token dict; exited is contents['output'] as set by an ENDGROUP
\* that empties the stack, output the override name of a STARTGROUP
PT(type, tag, name, output, exited, text, existing_params) ==
    [type |-> type, tag |-> tag, name |-> name, output |-> output,
     exited |-> exited, text |-> text, existing_params |-> existing_params]

\* the empty dict {} (falsy)
NoPT == PT("NONE", "", "", "", NoPath, <<>>, Params(NoPath, <<>>, FALSE, <<>>))

\* deepcopy(existing_params) taken for a snapshot: the context without side channels
deepcopy(p) == p

Whitespace == {" ", "\n"}

RECURSIVE lstrip(_)
lstrip(text) ==
    IF text # <<>> /\ text[1] \in Whitespace THEN lstrip(Tail(text)) ELSE text

RECURSIVE rstrip(_)
rstrip(text) ==
    IF text # <<>> /\ Last(text) \in Whitespace THEN rstrip(Front(text)) ELSE text

\* str.strip()
strip(text) == rstrip(lstrip(text))

\* re.sub(r'(\s+)|(\s*--\s*.*\s+)', ' ', text): every run of whitespace
\* becomes one space (the statements modelled carry no inline comment)
RECURSIVE sub_whitespace(_)
sub_whitespace(text) ==
    IF text = <<>> THEN <<>>
    ELSE IF text[1] \in Whitespace
         THEN <<" ">> \o sub_whitespace(lstrip(text))
         ELSE <<text[1]>> \o sub_whitespace(Tail(text))

\* flatten(big_list)
RECURSIVE flatten(_)
flatten(big_list) ==
    IF big_list = <<>> THEN <<>> ELSE big_list[1] \o flatten(Tail(big_list))

\* RAW_META_COMMENT_REGEX.findall(token.contents): one (group1, group2)
\* pair per keyword, then one for the OUTPUT clause
findall_raw_meta(tok) ==
    [i \in 1..Len(tok.cmds) |-> <<tok.cmds[i], "">>]
    \o (IF tok.output # "" THEN << <<"", "OUTPUT">> >> ELSE <<>>)

\* index_containing_substring(the_list, substring), 1-based, 0 for -1
index_containing_substring(the_list, substring) ==
    IF \E i \in 1..Len(the_list) : Lower(the_list[i]) = substring
    THEN CHOOSE i \in 1..Len(the_list) :
            /\ Lower(the_list[i]) = substring
            /\ \A j \in 1..(i - 1) : Lower(the_list[j]) # substring
    ELSE 0

\* list.pop(i)
list_pop(the_list, i) == SubSeq(the_list, 1, i - 1) \o SubSeq(the_list, i + 1, Len(the_list))

\* map(str.lower, filter(None, raw_meta)): the items the iterator will give
RECURSIVE map_lower_filter(_)
map_lower_filter(raw_meta) ==
    IF raw_meta = <<>> THEN <<>>
    ELSE IF raw_meta[1] = "" THEN map_lower_filter(Tail(raw_meta))
         ELSE <<Lower(raw_meta[1])>> \o map_lower_filter(Tail(raw_meta))

\* "x in it" on an iterator: consumes items up to and including the first
\* match, everything when there is none
iter_contains(it, x) ==
    IF \E i \in 1..Len(it) : it[i] = x
    THEN LET i == CHOOSE k \in 1..Len(it) : it[k] = x /\ \A j \in 1..(k - 1) : it[j] # x
         IN [found |-> TRUE, rest |-> SubSeq(it, i + 1, Len(it))]
    ELSE [found |-> FALSE, rest |-> <<>>]

\* a pop that tolerates the empty list
group_pop_lenient(group) ==
    [err |-> "", group |-> IF group = <<>> THEN <<>> ELSE Front(group)]

\* existing_params['group'].pop()
group_pop(group) ==
    IF group = <<>>
    THEN [err |-> "IndexError", group |-> group]
    ELSE [err |-> "", group |-> Front(group)]

Result(pt, p, e) == [processed_token |-> pt, existing_params |-> p, err |-> e]

\* the comment branch without the allow_comments test
process_comment_always(tok, existing_params) ==
    Result(PT(tok.type, "", "", "", NoPath, tok.text, deepcopy(existing_params)),
           existing_params, "")

\* process_token, comment branch (lines 190-194)
process_comment(tok, existing_params) ==
    IF existing_params.allow_comments
    THEN Result(PT(tok.type, "", "", "", NoPath, tok.text, deepcopy(existing_params)),
                existing_params, "")
    ELSE Result(NoPT, existing_params, "")

\* process_token, STARTGROUP branch (lines 196-202, 210)
process_startgroup(tok, existing_params, outfile_type) ==
    LET out == IF tok.output # ""
               THEN join(dirname(existing_params.output), tok.output, outfile_type)
               ELSE IF splitext_ext(existing_params.output) = ""
                    THEN join(existing_params.output, "default", outfile_type)
                    ELSE existing_params.output
        p == [existing_params EXCEPT !.output = out,
                                     !.group = Append(existing_params.group, tok.name)]
    IN Result(PT(tok.type, tok.tag, tok.name, tok.output, NoPath, <<>>, deepcopy(p)), p, "")

\* process_token, ENDGROUP branch (lines 203-210)
process_endgroup(tok, existing_params, outfile_type) ==
    LET popped == group_pop(existing_params.group)
    IN IF popped.err # ""
       THEN Result(NoPT, existing_params, popped.err)
       ELSE IF popped.group = <<>>
            THEN LET p == [existing_params EXCEPT
                              !.group = popped.group,
                              !.output = join(dirname(existing_params.output), "default", outfile_type)]
                 IN Result(PT(tok.type, tok.tag, tok.name, "", existing_params.output, <<>>, deepcopy(p)),
                           p, "")
            ELSE LET p == [existing_params EXCEPT
                              !.group = popped.group,
                              !.output = concat_ext(dirname(existing_params.output), outfile_type)]
                 IN Result(PT(tok.type, tok.tag, tok.name, "", NoPath, <<>>, deepcopy(p)), p, "")

\* the SQL branch reading the pending meta without taking it out of the context
process_sql_keep_meta(tok, existing_params) ==
    LET meta == existing_params.meta
        flat == strip(sub_whitespace(tok.text))
        excl == iter_contains(meta, "exclude")
        multi == IF excl.found THEN [found |-> FALSE, rest |-> excl.rest]
                 ELSE iter_contains(excl.rest, "multiline")
        formatted_sql == IF multi.found THEN strip(tok.text) ELSE flat
    IN Result(PT(tok.type, "", "", "", NoPath, formatted_sql, deepcopy(existing_params)),
              existing_params, "")

\* process_token, SQL branch (lines 226-236)
process_sql(tok, existing_params) ==
    LET meta == existing_params.meta
        p == [existing_params EXCEPT !.meta = <<>>]
        flat == strip(sub_whitespace(tok.text))
        excl == iter_contains(meta, "exclude")
        multi == IF excl.found THEN [found |-> FALSE, rest |-> excl.rest]
                 ELSE iter_contains(excl.rest, "multiline")
        formatted_sql == IF multi.found THEN strip(tok.text) ELSE flat
    IN Result(PT(tok.type, "", "", "", NoPath, formatted_sql, deepcopy(p)), p, "")

\* process_token, META_COMMENT branch (lines 211-225); next_token is what
\* next(self.token_source) gives
process_meta(tok, existing_params, outfile_type, next_token) ==
    LET raw_meta == flatten(findall_raw_meta(tok))
        output_provided == index_containing_substring(raw_meta, "output")
        ext == splitext_ext(existing_params.output)
        out == IF output_provided # 0
               THEN join(splitext_base(existing_params.output), tok.output,
                         IF ext # "" THEN ext ELSE outfile_type)
               ELSE existing_params.output
        raw2 == IF output_provided # 0
                THEN Append(list_pop(raw_meta, output_provided), "clear_out")
                ELSE raw_meta
        p == [existing_params EXCEPT !.output = out, !.meta = map_lower_filter(raw2)]
    IN IF next_token = EOF
       THEN Result(NoPT, p, "StopIteration")
       ELSE IF next_token.type # "SQL"
            THEN Result(NoPT, p, "ValueError_MetaComment")
            ELSE process_sql(next_token, deepcopy(p))

\* BaseConverter.process_token
process_token(tok, existing_params, outfile_type, next_token) ==
    CASE tok.type \in {"LINE_COMMENT", "BLOCK_COMMENT"} ->
            process_comment(tok, existing_params)
      [] tok.type = "GROUP_TAG" /\ Lower(tok.tag) = STARTGROUP_TAG ->
            process_startgroup(tok, existing_params, outfile_type)
      [] tok.type = "GROUP_TAG" /\ Lower(tok.tag) # STARTGROUP_TAG ->
            process_endgroup(tok, existing_params, outfile_type)
      [] tok.type = "META_COMMENT" ->
            process_meta(tok, existing_params, outfile_type, next_token)
      [] tok.type = "SQL" ->
            process_sql(tok, existing_params)
      [] OTHER ->
            Result(NoPT, existing_params, "ValueError_UnknownToken")

----------------------------------------------------------------------------
(* Output router and emitters *)

\* a handle opened with open(path, 'w+'): the file's characters and the
\* stream position (tell)
File(data, pos) == [data |-> data, pos |-> pos]

\* file.write(s) at the stream position, overwriting what is there
write(f, s) ==
    File(SubSeq(f.data, 1, f.pos) \o s \o SubSeq(f.data, f.pos + Len(s) + 1, Len(f.data)),
         f.pos + Len(s))

\* file.seek(n)
seek(f, n) == File(f.data, n)

\* emitter state threaded through one output step
Out(files, indent, line, e) ==
    [outfiles |-> files, last_indent |-> indent, last_line |-> line, err |-> e]

\* ' ' * n
spaces(n) == [i \in 1..n |-> " "]

\* json.dumps of a string without characters that need escaping
json_dumps(text) == <<"\"">> \o text \o <<"\"">>

\* a path without extension names a directory of the file system
isdir(path) == path.ext = ""

\* get_outfile without the membership test of line 261: every call opens the
\* path again with 'w+'
base_get_outfile_reopen(o, outfile_path) ==
    IF isdir(outfile_path)
    THEN [o EXCEPT !.err = "IsADirectoryError"]
    ELSE [o EXCEPT !.outfiles = (outfile_path :> File(<<>>, 0)) @@ o.outfiles]

\* BaseConverter.get_outfile (lines 257-267)
base_get_outfile(o, outfile_path) ==
    IF outfile_path \in DOMAIN o.outfiles
    THEN o
    ELSE IF isdir(outfile_path)
         THEN [o EXCEPT !.err = "IsADirectoryError"]
         ELSE [o EXCEPT !.outfiles = (outfile_path :> File(<<>>, 0)) @@ o.outfiles]

\* JSONConverter.get_outfile (lines 312-318)
json_get_outfile(o, outfile_path, cfg) ==
    LET o1 == base_get_outfile(o, outfile_path)
    IN IF o1.err # "" THEN o1
       ELSE IF o1.outfiles[outfile_path].pos # 0 THEN o1
       ELSE LET f1 == write(o1.outfiles[outfile_path], <<"{", "\n">>)
            IN IF "version" \notin cfg.has
               THEN [o1 EXCEPT !.outfiles[outfile_path] = f1, !.err = "KeyError"]
               ELSE LET line == spaces(cfg.json_space)
                                \o <<"\"", "v", "e", "r", "s", "i", "o", "n", "\"", ":", " ">>
                                \o json_dumps(<<cfg.version>>) \o <<",", "\n">>
                    IN [o1 EXCEPT !.outfiles[outfile_path] = write(f1, line),
                                  !.last_indent = cfg.json_space]

\* the number of characters comma_check seeks back
seek_dist(indent) == indent - 1

\* JSONConverter.comma_check (lines 320-325)
comma_check(o, outfile_path) ==
    LET prev_line == rstrip(o.last_line)
        f == o.outfiles[outfile_path]
    IN IF prev_line # <<>> /\ Last(prev_line) = ","
       THEN IF f.pos - seek_dist(o.last_indent) < 0
            THEN [o EXCEPT !.err = "ValueError_seek"]
            ELSE [o EXCEPT !.outfiles[outfile_path] =
                              write(seek(f, f.pos - seek_dist(o.last_indent)), <<"\n">>)]
       ELSE o

\* str.replace('\n', ' ')
replace_newlines(text) == [i \in 1..Len(text) |-> IF text[i] = "\n" THEN " " ELSE text[i]]

\* first index >= i of text that holds no whitespace (Len+1 if none)
RECURSIVE skip_ws(_, _)
skip_ws(text, i) ==
    IF i <= Len(text) /\ text[i] \in Whitespace THEN skip_ws(text, i + 1) ELSE i

\* PREPARE_REGEX.match(contents): PREPARE\s+(\w+)\s+AS\s+(.*);
prepare_match(text) ==
    LET i2 == skip_ws(text, 2)
        i3 == skip_ws(text, i2 + 1)
        i4 == skip_ws(text, i3 + 1)
        semis == {i \in 1..Len(text) : text[i] = ";"}
        end == IF semis = {} THEN 0 ELSE CHOOSE i \in semis : \A j \in semis : j <= i
        ok == /\ Len(text) >= 1 /\ text[1] = "PREPARE"
              /\ i2 > 2 /\ i2 <= Len(text) /\ text[i2] \notin {"AS", ";"}
              /\ i3 > i2 + 1 /\ i3 <= Len(text) /\ text[i3] = "AS"
              /\ i4 > i3 + 1 /\ end >= i4
    IN IF ok
       THEN [ok |-> TRUE, key |-> text[i2], query |-> SubSeq(text, i4, end - 1)]
       ELSE [ok |-> FALSE, key |-> "", query |-> <<>>]

\* JSONConverter.output_token (lines 327-349)
json_output_token(o, tok, outfile_path, cfg) ==
    LET f == o.outfiles[outfile_path]
    IN CASE tok.type = "SQL" ->
              IF tok.text = <<>> \/ tok.text[1] # "PREPARE" THEN o
              ELSE LET m == prepare_match(tok.text)
                       line == spaces(o.last_indent) \o <<"\"", m.key, "\"", ":", " ">>
                               \o json_dumps(replace_newlines(m.query)) \o <<",", "\n">>
                   IN IF ~m.ok THEN [o EXCEPT !.err = "AttributeError"]
                      ELSE [o EXCEPT !.outfiles[outfile_path] = write(f, line),
                                     !.last_line = line]
         [] tok.type = "GROUP_TAG" /\ Lower(tok.tag) = STARTGROUP_TAG ->
              LET line == spaces(o.last_indent) \o <<"\"", tok.name, "\"", ":", " ", "{", "\n">>
              IN [o EXCEPT !.outfiles[outfile_path] = write(f, line),
                           !.last_line = line,
                           !.last_indent = o.last_indent + cfg.json_space]
         [] tok.type = "GROUP_TAG" /\ Lower(tok.tag) # STARTGROUP_TAG ->
              LET indent == IF o.last_indent < cfg.json_space THEN o.last_indent
                            ELSE cfg.json_space
                  o1 == comma_check([o EXCEPT !.last_indent = indent], outfile_path)
                  line == spaces(indent) \o <<"}", ",", "\n">>
              IN IF o1.err # "" THEN o1
                 ELSE [o1 EXCEPT !.outfiles[outfile_path] = write(o1.outfiles[outfile_path], line),
                                 !.last_line = line]
         [] OTHER -> o

\* BaseConverter.output_token (lines 269-270), inherited by JSConverter
base_output_token(o, tok, outfile_path) == [o EXCEPT !.err = "NotImplementedError"]

\* the path output_tokens resolves for a token (lines 274-277)
token_outfile_path(tok) ==
    IF tok.type # "GROUP_TAG" \/ Lower(tok.tag) = STARTGROUP_TAG
    THEN tok.existing_params.output
    ELSE IF tok.exited # NoPath THEN tok.exited ELSE tok.existing_params.output

\* one iteration of BaseConverter.output_tokens (lines 273-278)
output_one(o, tok, cls, cfg) ==
    LET path == token_outfile_path(tok)
        o1 == IF cls = "JSON" THEN json_get_outfile(o, path, cfg)
              ELSE base_get_outfile(o, path)
    IN IF o1.err # "" THEN o1
       ELSE IF cls = "JSON" THEN json_output_token(o1, tok, path, cfg)
            ELSE base_output_token(o1, tok, path)

\* the closing loop of JSONConverter.output_tokens (lines 354-356)
RECURSIVE json_close_all(_, _)
json_close_all(o, paths) ==
    IF paths = {} \/ o.err # "" THEN o
    ELSE LET path == CHOOSE q \in paths : TRUE
             o1 == comma_check(o, path)
             o2 == IF o1.err # "" THEN o1
                   ELSE [o1 EXCEPT !.outfiles[path] = write(o1.outfiles[path], <<"}">>)]
         IN json_close_all(o2, paths \ {path})

----------------------------------------------------------------------------
(* The converter run: process_header, then the process_tokens loop, driven *)
(* either by a plain iteration or by output_tokens                          *)

\* self.config after BaseConverter.__init__ and the subclass __init__;
\* has is the set of header keys present in the dict
InitConfig(cls) ==
    [outfile_type |-> IF cls = "JSON" THEN ".json" ELSE ".js",
     allow_comments |-> cls # "JSON",
     json_space |-> IF cls = "JSON" THEN json_spaces ELSE 0,
     has |-> {},
     dialect |-> "", version |-> "", output |-> NoPath]

\* a header line sets its key only while the key is unset
config_set_first(cfg, tag, value) ==
    CASE tag \in cfg.has -> cfg
      [] tag = "dialect" -> [cfg EXCEPT !.has = @ \cup {"dialect"}, !.dialect = value]
      [] tag = "version" -> [cfg EXCEPT !.has = @ \cup {"version"}, !.version = value]
      [] tag = "output" -> [cfg EXCEPT !.has = @ \cup {"output"}, !.output = HeaderPath(value)]
      [] OTHER -> cfg

\* self.config[tag] = value (line 172)
config_set(cfg, tag, value) ==
    CASE tag = "dialect" -> [cfg EXCEPT !.has = @ \cup {"dialect"}, !.dialect = value]
      [] tag = "version" -> [cfg EXCEPT !.has = @ \cup {"version"}, !.version = value]
      [] tag = "output" -> [cfg EXCEPT !.has = @ \cup {"output"}, !.output = HeaderPath(value)]
      [] OTHER -> cfg

\* process_header after the loop (lines 175-178)
config_default_output(cfg) ==
    IF "output" \in cfg.has THEN cfg
    ELSE [cfg EXCEPT !.has = @ \cup {"output"}, !.output = getcwd]

\* process_header without the check of the required fields
missing_required_unchecked(cfg) == ""

\* the first required field missing from the config (lines 180-182), "" if none
missing_required(cfg) ==
    IF REQUIRED_HEADER_FIELDS \subseteq cfg.has THEN ""
    ELSE CHOOSE h \in REQUIRED_HEADER_FIELDS : h \notin cfg.has

ConvInit ==
    /\ conv \in {"JS", "JSON"}
    /\ driver \in {"process_header", "process_tokens", "output_tokens"}
    /\ pc = "header"
    /\ err = ""
    /\ config = InitConfig(conv)
    /\ params = Params(NoPath, <<>>, FALSE, <<>>)
    /\ outfiles = <<>>
    /\ last_indent = -1
    /\ last_line = <<>>
    /\ nTok = 0
    /\ token = NoToken
    /\ sql_token = NoToken
    /\ processed_token = NoPT
    /\ deleted = FALSE
    /\ closed = {}

LexIdle ==
    /\ block = <<>>
    /\ lexpc = "idle"
    /\ lexOut = NoToken
    /\ nLines = 0

Init ==
    /\ pep479 \in BOOLEAN
    /\ ConvInit
    /\ LexIdle

\* the run stops with an exception
Raise(e) ==
    /\ pc' = "error"
    /\ err' = e

\* how the tokenizer generator leaves when next(file) raises StopIteration in
\* its frame: with PEP 479 (Python >= 3.7) as a RuntimeError, before that by
\* ending as if it had returned
stop_iteration(generator_stop) == IF generator_stop THEN "raised" ELSE "ended"

\* the token source is exhausted (next(file) at lines 111-147 found no line):
\* either the RuntimeError reaches every caller, or the generators end and
\* the driver's loop is over; process_header called as a plain function
\* lets the StopIteration of its next() reach the caller
EndOfSource ==
    IF stop_iteration(pep479) = "raised"
    THEN /\ Raise("RuntimeError")
         /\ UNCHANGED <<outfiles, last_indent, last_line>>
    ELSE IF driver = "process_header"
    THEN /\ Raise("StopIteration")
         /\ UNCHANGED <<outfiles, last_indent, last_line>>
    ELSE IF driver = "output_tokens" /\ conv = "JSON"
         THEN LET o == json_close_all(Out(outfiles, last_indent, last_line, ""),
                                      DOMAIN outfiles)
              IN /\ outfiles' = o.outfiles
                 /\ last_indent' = o.last_indent
                 /\ last_line' = o.last_line
                 /\ IF o.err # "" THEN Raise(o.err)
                    ELSE pc' = "done" /\ err' = ""
         ELSE /\ pc' = "done" /\ err' = ""
              /\ UNCHANGED <<outfiles, last_indent, last_line>>

\* process_header: a Header token other than ENDHEAD (lines 171-172)
HeaderField ==
    /\ pc = "header" /\ nTok < MaxHeaderTokens
    /\ \E t \in header_tokens(driver) :
          /\ Lower(t.tag) # END_HEADER_MARKER
          /\ token' = t
          /\ config' = config_set(config, Lower(t.tag), t.value)
    /\ nTok' = nTok + 1
    /\ UNCHANGED <<pep479, conv, driver, pc, err, params, outfiles, last_indent,
                   last_line, sql_token, processed_token, lexVars, deleted, closed>>

\* process_header: a token that is no Header token (lines 169-170)
HeaderSkip ==
    /\ pc = "header" /\ nTok < MaxHeaderTokens
    /\ token' \in {LineCommentTok, SqlTok(SqlSelect)}
    /\ nTok' = nTok + 1
    /\ UNCHANGED <<pep479, conv, driver, pc, err, config, params, outfiles, last_indent,
                   last_line, sql_token, processed_token, lexVars, deleted, closed>>

\* process_header: ENDHEAD, the code after the loop (lines 173-182) and,
\* when process_tokens made the call, its set-up (lines 244-246)
HeaderEnd ==
    /\ pc = "header" /\ nTok < MaxHeaderTokens
    /\ token' = HeaderTok("ENDHEAD", ":")
    /\ LET cfg == config_default_output(config)
       IN /\ config' = cfg
          /\ IF missing_required(cfg) # ""
             THEN /\ Raise("LookupError")
                  /\ UNCHANGED <<params, nTok>>
             ELSE IF driver = "process_header"
             THEN /\ pc' = "done" /\ err' = ""
                  /\ nTok' = nTok + 1
                  /\ UNCHANGED params
             ELSE /\ pc' = "body" /\ err' = ""
                  /\ params' = Params(cfg.output, <<>>, cfg.allow_comments, <<>>)
                  /\ nTok' = 0
    /\ UNCHANGED <<pep479, conv, driver, outfiles, last_indent,
                   last_line, sql_token, processed_token, lexVars, deleted, closed>>

\* process_header: the token source ends before ENDHEAD (line 168)
HeaderEOF ==
    /\ pc = "header"
    /\ token' = EOF
    /\ EndOfSource
    /\ UNCHANGED <<pep479, conv, driver, config, params, nTok,
                   sql_token, processed_token, lexVars, deleted, closed>>

\* one iteration of the process_tokens loop (lines 249-255) on the pulled
\* token tok, with next_token the lookahead a meta comment pulls, followed by
\* the iteration of output_tokens (lines 273-278) that consumes the yield
Iteration(tok, next_token) ==
    LET r == process_token(tok, params, config.outfile_type, next_token)
        yielded == r.err = "" /\ r.processed_token # NoPT
        o0 == Out(outfiles, last_indent, last_line, "")
        o == IF yielded /\ driver = "output_tokens"
             THEN output_one(o0, r.processed_token, conv, config)
             ELSE o0
    IN /\ token' = tok
       /\ sql_token' = next_token
       /\ processed_token' = r.processed_token
       /\ params' = r.existing_params
       /\ IF r.err = "StopIteration"
          THEN EndOfSource
          ELSE /\ outfiles' = o.outfiles
               /\ last_indent' = o.last_indent
               /\ last_line' = o.last_line
               /\ IF r.err # "" THEN Raise(r.err)
                  ELSE IF o.err # "" THEN Raise(o.err)
                  ELSE UNCHANGED <<pc, err>>

\* the lookahead of a meta comment read without being taken from the source
tokens_pulled_peek(tok, next_token) == 1

\* the tokens one iteration takes from token_source: the one the for
\* statement pulls (line 249) and, under a meta comment, the one next()
\* pulls at line 221 unless the source is exhausted
tokens_pulled(tok, next_token) ==
    IF tok.type = "META_COMMENT" /\ next_token # EOF THEN 2 ELSE 1

\* the loop pulls a comment, a group tag, a SQL statement or a stray header line
BodyToken ==
    /\ pc = "body" /\ nTok < MaxBodyTokens
    /\ \E t \in BodyTokens \ MetaTokens :
          /\ (t.type = "GROUP_TAG" /\ Lower(t.tag) = STARTGROUP_TAG)
                => Len(params.group) < MaxGroupDepth
          /\ Iteration(t, NoToken)
          /\ nTok' = nTok + tokens_pulled(t, NoToken)
    /\ UNCHANGED <<pep479, conv, driver, config, lexVars, deleted, closed>>

\* the loop pulls a meta comment, process_token pulls the token after it
BodyMeta ==
    /\ pc = "body" /\ nTok < MaxBodyTokens
    /\ \E t \in MetaTokens :
       \E n \in (IF nTok + 1 < MaxBodyTokens THEN LookaheadTokens ELSE {}) \cup {EOF} :
          /\ Iteration(t, n)
          /\ nTok' = nTok + tokens_pulled(t, n)
    /\ UNCHANGED <<pep479, conv, driver, config, lexVars, deleted, closed>>

\* the loop finds the token source exhausted (line 249)
BodyEOF ==
    /\ pc = "body"
    /\ token' = EOF
    /\ sql_token' = NoToken
    /\ processed_token' = NoPT
    /\ EndOfSource
    /\ UNCHANGED <<pep479, conv, driver, config, params, nTok, lexVars, deleted, closed>>

\* the values the loop of __del__ binds outfile to (line 281): iterating a
\* dict yields its keys, the path strings
del_iterates(files) == DOMAIN files

\* x.close() exists: x is a file handle, not a path string
has_close(x) == "pos" \in DOMAIN x

\* the handles closed by the loop of __del__ (lines 281-285): close() is
\* called on every value the loop yields, whatever it raises is swallowed
del_closes(files) ==
    {path \in DOMAIN files :
        \E x \in del_iterates(files) : has_close(x) /\ x = files[path]}

\* BaseConverter.__del__ (lines 280-285), run when the converter is dropped
\* after its run has completed
Del ==
    /\ pc = "done"
    /\ ~deleted
    /\ deleted' = TRUE
    /\ closed' = closed \cup del_closes(outfiles)
    /\ UNCHANGED <<pep479, conv, driver, pc, err, config, params, outfiles,
                   last_indent, last_line, nTok, token, sql_token,
                   processed_token, lexVars>>

Next ==
    \/ HeaderField
    \/ HeaderSkip
    \/ HeaderEnd
    \/ HeaderEOF
    \/ BodyToken
    \/ BodyMeta
    \/ BodyEOF
    \/ Del

Spec == Init /\ [][Next]_vars

----------------------------------------------------------------------------
(* The tokenizer generator (lines 98-147), one line of the file at a time *)

\* the lines a source file is made of
Lines ==
    { "", "-- c", "-- DIALECT : postgres", "/* c */", "/* STARTGROUP : a */",
      "/*", "EXCLUDE", "*/", "SELECT q;", "SELECT q", "q;", "x" }

\* not line.strip()
is_blank(line) == line = ""

\* line.lstrip().startswith(LINE_COMMENT_START)
starts_line_comment(line) == line \in {"-- c", "-- DIALECT : postgres"}

\* HEADER_REGEX.match(line)
header_match(line) == line = "-- DIALECT : postgres"

\* line.lstrip().startswith(BLOCK_COMMENT_START)
starts_block_comment(line) == line \in {"/* c */", "/* STARTGROUP : a */", "/*"}

\* line.strip().endswith(BLOCK_COMMENT_END)
ends_block_comment(line) == line \in {"/* c */", "/* STARTGROUP : a */", "*/"}

\* GROUP_REGEX.match(line)
group_match(line) == line = "/* STARTGROUP : a */"

\* line.lstrip().split(' ', 1)[0] in SQL_STARTERS
starts_sql(line) == line \in {"SELECT q;", "SELECT q"}

\* line.rstrip().endswith(SQL_END)
ends_sql(line) == line \in {"SELECT q;", "q;"}

\* META_COMMENT_REGEX.search(join_block)
meta_search(blk) == \E i \in 1..Len(blk) : blk[i] = "EXCLUDE"

\* the lexemes of a line
line_text(line) ==
    CASE line = "" -> <<>>
      [] line = "SELECT q;" -> <<"SELECT", " ", "q", ";">>
      [] line = "SELECT q" -> <<"SELECT", " ", "q">>
      [] line = "q;" -> <<"q", ";">>
      [] OTHER -> <<line>>

\* cleandoc(' '.join(block)): the lines, each on its own line
RECURSIVE join_lines(_)
join_lines(blk) ==
    IF blk = <<>> THEN <<>>
    ELSE IF Len(blk) = 1 THEN line_text(blk[1])
    ELSE line_text(blk[1]) \o <<"\n">> \o join_lines(Tail(blk))

\* the EXCLUDE / MULTILINE keywords of a comment block
block_cmds(blk) == SelectSeq(blk, LAMBDA l : l \in {"EXCLUDE", "MULTILINE"})

\* what the loop body does with a fresh block = [line] (lines 113-146):
\* the token it yields (NoToken if none) and where the generator goes next
classify(line) ==
    CASE is_blank(line) -> [out |-> NoToken, pc |-> "advance"]
      [] ~is_blank(line) /\ starts_line_comment(line) ->
            [out |-> IF header_match(line) THEN HeaderTok("DIALECT", "postgres")
                     ELSE LineCommentTok,
             pc |-> "advance"]
      [] ~is_blank(line) /\ ~starts_line_comment(line) /\ starts_block_comment(line) ->
            IF ends_block_comment(line)
            THEN [out |-> IF group_match(line) THEN GroupTok("STARTGROUP", "a", "")
                          ELSE BlockCommentTok,
                  pc |-> "advance"]
            ELSE [out |-> NoToken, pc |-> "in_comment"]
      [] ~is_blank(line) /\ ~starts_line_comment(line) /\ ~starts_block_comment(line)
            /\ starts_sql(line) ->
            IF ends_sql(line)
            THEN [out |-> SqlTok(line_text(line)), pc |-> "advance"]
            ELSE [out |-> NoToken, pc |-> "in_sql"]
      [] OTHER -> [out |-> NoToken, pc |-> "advance"]

\* tokenizer(filename) is called: the generator is about to read line 1
LexInit ==
    /\ pep479 \in BOOLEAN
    /\ conv = "JS" /\ driver = "process_tokens" /\ pc = "header" /\ err = ""
    /\ config = InitConfig("JS")
    /\ params = Params(NoPath, <<>>, FALSE, <<>>)
    /\ outfiles = <<>> /\ last_indent = -1 /\ last_line = <<>>
    /\ nTok = 0 /\ token = NoToken /\ sql_token = NoToken /\ processed_token = NoPT
    /\ deleted = FALSE /\ closed = {}
    /\ block = <<>>
    /\ lexpc = "start"
    /\ lexOut = NoToken
    /\ nLines = 0

\* block = [next(file)] (lines 111 and 147) and the classification of the line
LexReadLine ==
    /\ lexpc \in {"start", "advance"} /\ nLines < MaxLines
    /\ \E line \in Lines :
          /\ block' = <<line>>
          /\ lexpc' = classify(line).pc
          /\ lexOut' = classify(line).out
    /\ nLines' = nLines + 1
    /\ UNCHANGED <<pep479, convVars>>

\* block.append(next(file)) inside a multi-line block comment (lines 130-138)
LexReadComment ==
    /\ lexpc = "in_comment" /\ nLines < MaxLines
    /\ \E line \in Lines :
          LET blk == Append(block, line)
          IN /\ block' = blk
             /\ IF ends_block_comment(line)
                THEN /\ lexpc' = "advance"
                     /\ lexOut' = IF meta_search(blk)
                                  THEN MetaTok(block_cmds(blk), "")
                                  ELSE BlockCommentTok
                ELSE /\ lexpc' = "in_comment"
                     /\ lexOut' = NoToken
    /\ nLines' = nLines + 1
    /\ UNCHANGED <<pep479, convVars>>

\* block.append(next(file)) inside a multi-line statement (lines 143-146)
LexReadSql ==
    /\ lexpc = "in_sql" /\ nLines < MaxLines
    /\ \E line \in Lines :
          LET blk == Append(block, line)
          IN /\ block' = blk
             /\ IF ends_sql(line)
                THEN /\ lexpc' = "advance"
                     /\ lexOut' = SqlTok(join_lines(blk))
                ELSE /\ lexpc' = "in_sql"
                     /\ lexOut' = NoToken
    /\ nLines' = nLines + 1
    /\ UNCHANGED <<pep479, convVars>>

\* next(file) finds the file exhausted, at any of lines 111, 130, 132, 143, 145, 147
LexEOF ==
    /\ lexpc \in {"start", "advance", "in_comment", "in_sql"}
    /\ lexpc' = stop_iteration(pep479)
    /\ lexOut' = NoToken
    /\ UNCHANGED <<pep479, convVars, block, nLines>>

LexNext ==
    \/ LexReadLine
    \/ LexReadComment
    \/ LexReadSql
    \/ LexEOF

SpecLex == LexInit /\ [][LexNext]_vars

----------------------------------------------------------------------------
(* Properties *)

Range(seq) == {seq[i] : i \in DOMAIN seq}

\* this step is an iteration of the process_tokens loop on a pulled token
LoopStep == pc = "body" /\ nTok' > nTok

StartA == GroupTok("STARTGROUP", "a", "")

StartB == GroupTok("STARTGROUP", "b", "")

EndA == GroupTok("ENDGROUP", "a", "")

\* the context after process_token on tok, without lookahead
After(tok, p) == process_token(tok, p, config.outfile_type, NoToken).existing_params

\* C1: a STARTGROUP without OUTPUT override followed by its ENDGROUP, with
\* nothing or a balanced override-free pair in between, leaves the output
\* path of the context as it was before the STARTGROUP, in every context
C1_BalancedGroupRestoresOutput ==
    pc = "body" =>
        /\ After(EndA, After(StartA, params)).output = params.output
        /\ After(EndA, After(EndA, After(StartB, After(StartA, params)))).output
              = params.output

\* C2: the SQL token after a meta comment holding EXCLUDE yields no
\* ProcessedToken and nothing of it is written to any output file
C2_ExcludeSuppresses ==
    [][(/\ LoopStep
        /\ token'.type = "META_COMMENT"
        /\ "EXCLUDE" \in Range(token'.cmds)
        /\ sql_token'.type = "SQL")
       => (processed_token' = NoPT /\ outfiles' = outfiles)]_vars

\* C3: a meta comment with OUTPUT: name redirects the one statement after it:
\* the snapshot of the statement has the rewritten path, the context
\* returned keeps the output path held before the meta comment
C3_MetaOutputOneShot ==
    [][(/\ LoopStep
        /\ token'.type = "META_COMMENT"
        /\ token'.output # ""
        /\ sql_token'.type = "SQL")
       => (/\ Last(processed_token'.existing_params.output.segs) = token'.output
           /\ params'.output = params.output)]_vars

\* a comma that is the last non-whitespace character before a closing brace
dangling_comma(data) ==
    \E i \in 1..Len(data) : \E j \in (i + 1)..Len(data) :
        /\ data[i] = ","
        /\ data[j] = "}"
        /\ \A k \in (i + 1)..(j - 1) : data[k] \in Whitespace

JsonRunDone == pc = "done" /\ conv = "JSON" /\ driver = "output_tokens"

\* C4: after JSONConverter.output_tokens has completed no output file holds
\* a comma directly (whitespace aside) before a closing brace
C4_NoDanglingComma ==
    JsonRunDone => \A path \in DOMAIN outfiles : ~dangling_comma(outfiles[path].data)

\* number of positions of data holding the character c
count(data, c) == Cardinality({i \in 1..Len(data) : data[i] = c})

\* every closing brace closes an open one and none stays open
braces_matched(data) ==
    /\ count(data, "{") = count(data, "}")
    /\ \A n \in 1..Len(data) :
          count(SubSeq(data, 1, n), "}") <= count(SubSeq(data, 1, n), "{")

\* every string literal of the file has its opening and its closing quote
literals_intact(data) == count(data, "\"") % 2 = 0

\* C5: with the JSON emitter a document with balanced groups gives, per
\* output path, a well-formed nested object: every opened brace closed in
\* the same file, the root brace last, every "name": "query" entry complete
C5_WellFormedObject ==
    /\ (conv = "JSON" /\ driver = "output_tokens" /\ pc \in {"body", "done"})
          => \A path \in DOMAIN outfiles : literals_intact(outfiles[path].data)
    /\ (JsonRunDone /\ params.group = <<>>)
          => \A path \in DOMAIN outfiles :
                /\ braces_matched(outfiles[path].data)
                /\ Last(rstrip(outfiles[path].data)) = "}"

\* C6: a meta comment whose next token is no SQL token, or is missing
\* because the input ended, stops the run with the meta-comment ValueError
\* and yields no ProcessedToken
C6_MetaCommentMisplaced ==
    [][(/\ LoopStep
        /\ token'.type = "META_COMMENT"
        /\ sql_token'.type # "SQL")
       => (/\ pc' = "error"
           /\ err' = "ValueError_MetaComment"
           /\ processed_token' = NoPT)]_vars

\* C7: an ENDGROUP processed while the group stack is empty stops the run
\* with the error of popping an empty stack; no ProcessedToken is produced,
\* nothing is written and the stack stays empty
C7_UnbalancedGroup ==
    [][(/\ LoopStep
        /\ token'.type = "GROUP_TAG"
        /\ Lower(token'.tag) = ENDGROUP_TAG
        /\ params.group = <<>>)
       => (/\ pc' = "error"
           /\ err' = "IndexError"
           /\ processed_token' = NoPT
           /\ outfiles' = outfiles
           /\ params'.group = <<>>)]_vars

\* an ENDGROUP met an empty stack after a group had been opened, written and closed
C7_Witness ==
    /\ pc = "error" /\ err = "IndexError"
    /\ token = EndA
    /\ params.group = <<>>
    /\ nTok >= 3
    /\ outfiles # <<>>

\* C8: a statement after a MULTILINE (and not EXCLUDE) meta comment is
\* emitted as its original text, line breaks kept; a statement without
\* meta comment is emitted with every whitespace run collapsed to one space
C8_MultilineKeepsLineBreaks ==
    [][/\ (/\ LoopStep
           /\ token'.type = "META_COMMENT"
           /\ "MULTILINE" \in Range(token'.cmds)
           /\ "EXCLUDE" \notin Range(token'.cmds)
           /\ sql_token'.type = "SQL")
          => (processed_token'.text = strip(sql_token'.text))
       /\ (LoopStep /\ token'.type = "SQL")
          => (processed_token'.text = strip(sub_whitespace(token'.text)))]_vars

\* C9: the JS emitter writes the contents of every yielded ProcessedToken as
\* one line of the file resolved for it and does not fail
C9_ScriptEmitterWrites ==
    [][(/\ LoopStep
        /\ conv = "JS" /\ driver = "output_tokens"
        /\ processed_token' # NoPT)
       => LET path == token_outfile_path(processed_token')
              before == IF path \in DOMAIN outfiles THEN outfiles[path].data ELSE <<>>
          IN /\ pc' = "body"
             /\ path \in DOMAIN outfiles'
             /\ outfiles'[path].data = before \o processed_token'.text \o <<"\n">>]_vars

\* the tokenizer finds the file exhausted in this step
LexStops == lexpc' \in {"ended", "raised"} /\ lexpc \notin {"ended", "raised"}

\* C10: out of lines between tokens the tokenizer ends normally; out of
\* lines inside a multi-line comment or statement it raises, and the
\* partial block is not yielded
C10_EndOfInputVsUnterminated ==
    [][/\ (LexStops /\ lexpc \in {"start", "advance"}) => lexpc' = "ended"
       /\ (LexStops /\ lexpc \in {"in_comment", "in_sql"})
             => (lexpc' = "raised" /\ lexOut' = NoToken)]_vars

\* get_outfile of the converter class, on the emitter state of this state
get_outfile_again(files, indent, line, path) ==
    LET o == Out(files, indent, line, "")
    IN IF conv = "JSON" THEN json_get_outfile(o, path, config)
       ELSE base_get_outfile(o, path)

\* C11: get_outfile is idempotent per path: a path of the handle table stays
\* in it with the handle it has, no step shortens what a handle holds, and
\* a further get_outfile call for a path of the table returns the handle
\* as it is, content and position untouched, and changes nothing else
C11_GetOutfileIdempotent ==
    [][/\ \A path \in DOMAIN outfiles :
             /\ path \in DOMAIN outfiles'
             /\ Len(outfiles'[path].data) >= Len(outfiles[path].data)
       /\ \A path \in DOMAIN outfiles' :
             get_outfile_again(outfiles', last_indent', last_line', path)
                = Out(outfiles', last_indent', last_line', "")]_vars

\* a handle of the JSON emitter that was resolved for the preamble and for
\* two entries written after it
C11_Witness ==
    /\ pc = "body" /\ conv = "JSON" /\ driver = "output_tokens"
    /\ \E path \in DOMAIN outfiles : count(outfiles[path].data, ":") >= 3

\* C12: once the run is over and the converter has been torn down, every
\* handle that get_outfile opened is closed, and the tear-down leaves the
\* outcome of the run as it was (no error of a close() propagates)
C12_TeardownClosesHandles ==
    deleted => \A path \in DOMAIN outfiles : path \in closed

\* this step is process_header meeting the ENDHEAD token
EndHeadStep ==
    /\ pc = "header"
    /\ token'.type = "HEADER"
    /\ Lower(token'.tag) = END_HEADER_MARKER

\* C13: a header that reaches ENDHEAD without a dialect field ends
\* process_header with the missing-required-field error (LookupError),
\* whatever else was set or skipped, and no run gets to the body with a
\* configuration that lacks dialect
C13_MissingDialectFails ==
    /\ [](pc = "body" => "dialect" \in config.has)
    /\ [][(EndHeadStep /\ "dialect" \notin config.has)
            => (pc' = "error" /\ err' = "LookupError" /\ nTok' = nTok)]_vars

\* ENDHEAD found a header with a version and other tokens, but no dialect
C13_Witness ==
    /\ pc = "error" /\ err = "LookupError"
    /\ token = HeaderTok("ENDHEAD", ":")
    /\ "version" \in config.has /\ "dialect" \notin config.has
    /\ nTok >= 2

\* the header fields of a configuration, key by key
header_fields(cfg) ==
    [key \in cfg.has |->
        CASE key = "dialect" -> <<cfg.dialect>>
          [] key = "version" -> <<cfg.version>>
          [] OTHER -> cfg.output.segs \o <<cfg.output.ext>>]

\* the header fields fs with key set to value
with_field(fs, key, value) == (key :> value) @@ fs

\* C14: process_header builds the header fields from the Header tokens
\* alone: each one before ENDHEAD sets its lower-cased tag to its value,
\* replacing an earlier value; a token that is no Header token changes
\* nothing; at ENDHEAD of a header with dialect the fields are returned as
\* they stand, output set to the working directory if it was never given,
\* and ENDHEAD is the last token process_header pulls
C14_HeaderFieldsAsGiven ==
    [][/\ (pc = "header" /\ pc' = "header" /\ token'.type = "HEADER")
          => /\ header_fields(config') =
                   with_field(header_fields(config), Lower(token'.tag),
                       IF Lower(token'.tag) = "output"
                       THEN HeaderPath(token'.value).segs \o <<HeaderPath(token'.value).ext>>
                       ELSE <<token'.value>>)
             /\ nTok' = nTok + 1
       /\ (pc = "header" /\ token'.type # "HEADER") => config' = config
       /\ (EndHeadStep /\ "dialect" \in config.has)
          => /\ pc' \in {"body", "done"} /\ err' = ""
             /\ header_fields(config') =
                   IF "output" \in config.has THEN header_fields(config)
                   ELSE with_field(header_fields(config), "output",
                                   getcwd.segs \o <<getcwd.ext>>)
             /\ driver = "process_header" => nTok' = nTok + 1]_vars

\* process_header has returned the configuration of a header of
\* MaxHeaderTokens tokens that gave dialect and version, ENDHEAD being the
\* last token pulled, and the output is the working directory
C14_Witness ==
    /\ pc = "done" /\ driver = "process_header"
    /\ nTok = MaxHeaderTokens
    /\ config.dialect = "base_sql"
    /\ config.version \in {"1", "2"}
    /\ config.output = getcwd

\* C15: a document whose header has dialect and ENDHEAD but no version
\* converts under the JSON emitter without an error caused by the absent
\* field: the only header key whose absence stops a run is dialect
C15_VersionOptional ==
    (/\ conv = "JSON" /\ driver = "output_tokens"
     /\ "dialect" \in config.has
     /\ "version" \notin config.has)
    => err # "KeyError"

\* C16: the directives of a meta comment are used up by the statement
\* that follows it: after that step neither the context nor the snapshot of
\* the statement holds a pending meta, whatever the directives were, and a
\* statement pulled by the loop itself finds no pending meta, is yielded
\* and has its whitespace collapsed
C16_MetaOneShot ==
    [][/\ (/\ LoopStep
           /\ token'.type = "META_COMMENT"
           /\ sql_token'.type = "SQL")
          => (/\ params'.meta = <<>>
              /\ processed_token' # NoPT => processed_token'.existing_params.meta = <<>>)
       /\ (LoopStep /\ token'.type = "SQL")
          => (/\ params.meta = <<>>
              /\ params'.meta = <<>>
              /\ processed_token' # NoPT
              /\ processed_token'.existing_params.meta = <<>>
              /\ processed_token'.text = strip(sub_whitespace(token'.text)))]_vars

\* the statement after a meta comment holding EXCLUDE has been processed
\* and the run goes on with a context without pending meta
C16_Witness ==
    /\ pc = "body"
    /\ token.type = "META_COMMENT" /\ "EXCLUDE" \in Range(token.cmds)
    /\ sql_token.type = "SQL"
    /\ params.meta = <<>>

\* the JSON emitter is writing the body
JsonWriting == pc = "body" /\ conv = "JSON" /\ driver = "output_tokens"

\* C17: in the JSON emitter a STARTGROUP raises the indent by one
\* json_space unit and an ENDGROUP lowers it by one, so that, once a file
\* is open, the indent is one unit plus one unit per open group
C17_IndentTracksDepth ==
    (JsonWriting /\ last_indent # -1)
    => last_indent = json_spaces * (1 + Len(params.group))

\* the tokens handed to process_token in the step just taken: the one of
\* the loop and, by the call of line 225, the statement after a meta comment
handled_tokens ==
    <<token'>> \o (IF token'.type = "META_COMMENT" /\ sql_token'.type = "SQL"
                   THEN <<sql_token'>> ELSE <<>>)

\* C18: while the run goes on, every token taken from the source is handed
\* to process_token once: an iteration advances the source by exactly the
\* tokens it handles, the statement after a meta comment being handled
\* inside the meta comment's iteration, and what the iteration yields is
\* the ProcessedToken of the last token it took
C18_EachTokenOnce ==
    [][(LoopStep /\ pc' = "body")
       => (/\ nTok' - nTok = Len(handled_tokens)
           /\ processed_token' # NoPT
                 => processed_token'.type = Last(handled_tokens).type
           /\ (token'.type = "META_COMMENT")
                 => (/\ sql_token'.type = "SQL"
                     /\ processed_token'.text \in
                           {strip(sql_token'.text), strip(sub_whitespace(sql_token'.text))}))]_vars

\* a meta comment and the statement after it were the last two tokens of a
\* body of MaxBodyTokens tokens, and the statement's ProcessedToken is the yield
C18_Witness ==
    /\ pc = "body"
    /\ nTok = MaxBodyTokens
    /\ token.type = "META_COMMENT"
    /\ sql_token.type = "SQL"
    /\ processed_token.type = "SQL"

\* C19: process_token on a line or block comment leaves the context as it
\* is and yields a ProcessedToken exactly when allow_comments is set; under
\* the JSON emitter, which clears allow_comments, a comment yields nothing
\* and no file or emitter state is touched
C19_CommentsLeaveContext ==
    [][(LoopStep /\ token'.type \in {"LINE_COMMENT", "BLOCK_COMMENT"})
       => (/\ params' = params
           /\ (processed_token' # NoPT) <=> params.allow_comments
           /\ processed_token' # NoPT
                 => (/\ processed_token'.type = token'.type
                     /\ processed_token'.text = token'.text
                     /\ processed_token'.existing_params = params)
           /\ conv = "JSON"
                 => (/\ processed_token' = NoPT
                     /\ pc' = "body"
                     /\ outfiles' = outfiles
                     /\ last_indent' = last_indent
                     /\ last_line' = last_line))]_vars

\* the JSON emitter has passed over a comment inside an open group after
\* it had written to a file
C19_Witness ==
    /\ JsonWriting
    /\ token.type \in {"LINE_COMMENT", "BLOCK_COMMENT"}
    /\ processed_token = NoPT
    /\ params.group # <<>>
    /\ outfiles # <<>>

====
